---------------------------- MODULE Spec2Model ----------------------------
(***************************************************************************)
(* Model of GoogleFindMyTools-homeassistant:                               *)
(*   - FMDNCrypto/foreign_tracker_cryptor.py : rx_to_ry, encrypt_aes_eax,  *)
(*     decrypt_aes_eax, encrypt, decrypt   (specification Spec)            *)
(*   - publish_mqtt.py : main, the publishing loop (specification SpecLoop)*)
(*                                                                         *)
(* The curve SECP160r1 (160-bit field) is replaced by a curve of the same  *)
(* shape over a small field: p = 3 (mod 4), a = p - 3, prime group order   *)
(* n > p, cofactor 1, a generator with an odd y.  Byte strings keep the    *)
(* lengths of the code (20-byte coordinates and seeds, 16-byte tag and     *)
(* nonce, 32-byte key).  HKDF-SHA256 and AES-256-EAX are library code; they *)
(* are modelled by keyed arithmetic over bytes with the same interface:    *)
(* a 32-byte key derived from the input key material, a counter-mode       *)
(* keystream XORed on the data, and a 16-byte tag over key, nonce and      *)
(* ciphertext.                                                             *)
(***************************************************************************)
EXTENDS Integers, Sequences, FiniteSets, TLC

VARIABLES
    pc,                   \* position of the crypto scenario
    identity_key,         \* decrypt's identity_key
    beacon_time_counter,  \* decrypt's beacon_time_counter
    message,              \* encrypt's message
    random,               \* encrypt's random (20-byte seed)
    eid,                  \* encrypt's eid (20 bytes)
    enc,                  \* what encrypt returned or raised
    encryptedAndTag,      \* the payload handed to decrypt
    SxBytes,              \* the Sx handed to decrypt
    dec,                  \* what decrypt returned or raised
    probe,                \* arguments of a direct call of a helper
    out,                  \* what that helper returned or raised
    DEVICE_NAMES_FILTER,  \* publish_mqtt: the filter setting, split at the commas
    lpc,                  \* publish_mqtt.main: position
    canonic_ids,          \* main: the device list of the cycle (after the filter)
    idx,                  \* main: index of the device being processed
    log,                  \* MQTT publishes of the current cycle, in order
    attempted,            \* devices whose processing started in the current cycle
    failed,               \* <<device index, exception>> caught per device in the cycle
    cycle_failed,         \* the cycle's own except clause ran in the current cycle
    raised,               \* the exception that is propagating, or "none"
    cycles,               \* number of update cycles started
    loop_running,         \* client network loop is running (loop_start/loop_stop)
    connected,            \* client is connected
    finalized             \* the finally block of main has run

cryptoVars == <<pc, identity_key, beacon_time_counter, message, random, eid, enc,
                encryptedAndTag, SxBytes, dec, probe, out>>
loopVars == <<DEVICE_NAMES_FILTER, lpc, canonic_ids, idx, log, attempted, failed,
              cycle_failed, raised, cycles, loop_running, connected, finalized>>
vars == <<cryptoVars, loopVars>>

-----------------------------------------------------------------------------
(* Bounds of the model *)

MaxMsgLen == 2        \* longest message
MaxCounter == 2       \* beacon time counters 0..MaxCounter
MaxDevices == 2       \* longest device list the API returns
MaxCycles == 2        \* update cycles that are followed

(* Program constants *)

COORD_LEN == 20       \* to_bytes(20, 'big')
TAG_LEN == 16         \* encryptedAndTag[-16:]
KEY_LEN == 32         \* len(key) != 32, HKDF length=32
LOW_START == 12       \* the [12:] of LRx and LSx

None == -1            \* Python's None (the coordinates of INFINITY)

-----------------------------------------------------------------------------
(* Bytes *)

RECURSIVE Xor(_, _)
Xor(u, v) ==
    IF u = 0 THEN v
    ELSE IF v = 0 THEN u
    ELSE (((u % 2) + (v % 2)) % 2) + 2 * Xor(u \div 2, v \div 2)

RECURSIVE Pow2(_)
Pow2(k) == IF k = 0 THEN 1 ELSE 2 * Pow2(k - 1)

\* int.to_bytes(length, 'big') of a non-negative integer that fits
RECURSIVE to_bytes(_, _)
to_bytes(v, length) ==
    IF length = 0 THEN << >>
    ELSE Append(to_bytes(v \div 256, length - 1), (v % 256))

\* int.from_bytes(b, byteorder='big')
RECURSIVE from_bytes(_)
from_bytes(b) ==
    IF Len(b) = 0 THEN 0
    ELSE 256 * from_bytes(SubSeq(b, 1, Len(b) - 1)) + b[Len(b)]

\* int.from_bytes(b, byteorder='big') % m, by Horner's rule modulo m
RECURSIVE from_bytes_mod(_, _)
from_bytes_mod(b, m) ==
    IF Len(b) = 0 THEN 0
    ELSE (256 * from_bytes_mod(SubSeq(b, 1, Len(b) - 1), m) + b[Len(b)]) % m

RECURSIVE pow_mod(_, _, _)
pow_mod(base, e, m) ==
    IF e = 0 THEN 1 % m
    ELSE IF e % 2 = 0
         THEN LET h == pow_mod(base, e \div 2, m) IN (h * h) % m
         ELSE (base * pow_mod(base, e - 1, m)) % m

\* int.from_bytes(b, byteorder='big', signed=True) % m  (two's complement)
signed_from_bytes_mod(b, m) ==
    LET u == from_bytes_mod(b, m)
        top == Len(b) > 0 /\ b[1] >= 128
    IN IF top THEN (u + m - pow_mod(2, 8 * Len(b), m)) % m ELSE u

\* b[k:] for 0 <= k
Tail_from(b, k) == SubSeq(b, k + 1, Len(b))

\* b[:-k] and b[-k:] of Python, k > 0
Slice_to_minus(b, k) == IF Len(b) <= k THEN << >> ELSE SubSeq(b, 1, Len(b) - k)
Slice_from_minus(b, k) == IF Len(b) <= k THEN b ELSE SubSeq(b, Len(b) - k + 1, Len(b))

-----------------------------------------------------------------------------
(* The curve and the ecdsa library's points *)

\* SECP160r1, scaled: y^2 = x^3 + a*x + b over GF(p), generator (Gx, Gy), order n
SECP160r1 == [p |-> 43, a |-> 40, b |-> 12, Gx |-> 1, Gy |-> 15, order |-> 47]

\* A second curve with p = 3 (mod 4) that has a point with y = 0 (x = 3), offered
\* to rx_to_ry only: the square root 0.
CurveWithZeroRoot == [p |-> 43, a |-> 40, b |-> 25, Gx |-> 3, Gy |-> 0, order |-> 2]

Curves == {SECP160r1, CurveWithZeroRoot}

INFINITY == [inf |-> TRUE, x |-> None, y |-> None]
Point(x, y) == [inf |-> FALSE, x |-> x, y |-> y]
generator(curve) == Point(curve.Gx, curve.Gy)

inverse_mod(v, m) == CHOOSE i \in 1..(m - 1) : (v * i) % m = 1

\* Point.double
point_double(P, curve) ==
    IF P.inf THEN INFINITY
    ELSE IF (2 * P.y) % curve.p = 0 THEN INFINITY
    ELSE LET p == curve.p
             l == ((3 * P.x * P.x + curve.a) * inverse_mod((2 * P.y) % p, p)) % p
             x3 == (l * l + 2 * p - 2 * (P.x % p)) % p
             y3 == (l * ((P.x % p) + p - x3) + p - (P.y % p)) % p
         IN Point(x3, y3)

\* Point.__add__
point_add(P, Q, curve) ==
    IF P.inf THEN Q
    ELSE IF Q.inf THEN P
    ELSE LET p == curve.p IN
         IF (P.x - Q.x) % p = 0
         THEN IF (P.y + Q.y) % p = 0 THEN INFINITY ELSE point_double(P, curve)
         ELSE LET l == (((Q.y - P.y) % p) * inverse_mod((Q.x - P.x) % p, p)) % p
                  x3 == (l * l + 2 * p - (P.x % p) - (Q.x % p)) % p
                  y3 == (l * ((P.x % p) + p - x3) + p - (P.y % p)) % p
              IN Point(x3, y3)

\* Point.__mul__ / PointJacobi.__mul__ for a scalar k >= 0: INFINITY when k = 0
RECURSIVE point_mul(_, _, _)
point_mul(k, P, curve) ==
    IF k = 0 \/ P.inf THEN INFINITY
    ELSE IF k % 2 = 0
         THEN point_double(point_mul(k \div 2, P, curve), curve)
         ELSE point_add(P, point_mul(k - 1, P, curve), curve)

\* Point.x(): None for INFINITY
point_x(P) == IF P.inf THEN None ELSE P.x

-----------------------------------------------------------------------------
(* Results: a returned value, or the exception a call raised *)

Returned(v) == [err |-> "none", msg |-> "", val |-> v]
Raised(e, m) == [err |-> e, msg |-> m, val |-> None]

MSG_INVALID_EID == "The provided EID isn't a valid E2EE public key."
MSG_KEY_LENGTH == "Key must be 32 bytes long for AES-256"
MSG_MAC == "MAC check failed"
MSG_NONE == "'NoneType' object has no attribute 'to_bytes'"

\* rx_to_ry without the verification of the root
rx_to_ry_unverified(Rx, curve) ==
    LET Ryy == (Rx * Rx * Rx + curve.a * Rx + curve.b) % curve.p
        Ry == pow_mod(Ryy, (curve.p + 1) \div 4, curve.p)
    IN IF Ry % 2 # 0 THEN Returned(curve.p - Ry) ELSE Returned(Ry)

\* rx_to_ry without the choice of the even root
rx_to_ry_any_parity(Rx, curve) ==
    LET Ryy == (Rx * Rx * Rx + curve.a * Rx + curve.b) % curve.p
        Ry == pow_mod(Ryy, (curve.p + 1) \div 4, curve.p)
    IN IF (Ry * Ry) % curve.p # Ryy
       THEN Raised("ValueError", MSG_INVALID_EID)
       ELSE Returned(Ry)

\* rx_to_ry(Rx, curve)
rx_to_ry(Rx, curve) ==
    LET Ryy == (Rx * Rx * Rx + curve.a * Rx + curve.b) % curve.p
        Ry == pow_mod(Ryy, (curve.p + 1) \div 4, curve.p)
    IN IF (Ry * Ry) % curve.p # Ryy
       THEN Raised("ValueError", MSG_INVALID_EID)
       ELSE IF Ry % 2 # 0 THEN Returned(curve.p - Ry) ELSE Returned(Ry)

-----------------------------------------------------------------------------
(* Library primitives, by their interface *)

\* A position-weighted sum of a byte string
RECURSIVE Digest(_)
Digest(b) ==
    IF Len(b) = 0 THEN 0
    ELSE Digest(SubSeq(b, 1, Len(b) - 1)) + Len(b) * b[Len(b)]

\* HKDF(algorithm=SHA256, length=32, salt=None, info=b'').derive(ikm)
HKDF(ikm) ==
    LET d == Digest(ikm)
    IN [i \in 1..KEY_LEN |-> (7 * d + 13 * i + 5) % 256]

\* AES.new(key, AES.MODE_EAX, nonce=nonce): the library's own argument checks
AES_new(key, nonce) ==
    IF Len(key) \notin {16, 24, 32}
    THEN Raised("ValueError", "Incorrect AES key length")
    ELSE IF Len(nonce) = 0
         THEN Raised("ValueError", "Nonce cannot be empty in EAX mode")
         ELSE Returned([key |-> key, nonce |-> nonce])

\* The counter-mode part of EAX: data XOR keystream (the same both ways)
eax_crypt(cipher, data) ==
    LET d == Digest(cipher.key) + 3 * Digest(cipher.nonce)
    IN [i \in 1..Len(data) |-> Xor(data[i], (d + 11 * i) % 256)]

\* The 16-byte tag of EAX over key, nonce and ciphertext
eax_mac(cipher, ciphertext) ==
    to_bytes(Digest(cipher.key) + 3 * Digest(cipher.nonce)
             + 5 * Digest(ciphertext) + Len(ciphertext) + 1, TAG_LEN)

\* cipher.encrypt_and_digest(data)
encrypt_and_digest(cipher, data) ==
    LET ciphertext == eax_crypt(cipher, data)
    IN Returned(<<ciphertext, eax_mac(cipher, ciphertext)>>)

\* cipher.decrypt_and_verify(data, tag): plaintext only when the tag verifies
decrypt_and_verify(cipher, data, tag) ==
    IF tag # eax_mac(cipher, data)
    THEN Raised("ValueError", MSG_MAC)
    ELSE Returned(eax_crypt(cipher, data))

-----------------------------------------------------------------------------
(* foreign_tracker_cryptor.py *)

\* encrypt_aes_eax without its own key-length check
encrypt_aes_eax_unchecked(data, nonce, key) ==
    LET cipher == AES_new(key, nonce)
    IN IF cipher.err # "none" THEN cipher
       ELSE encrypt_and_digest(cipher.val, data)

\* encrypt_aes_eax(data, nonce, key)
encrypt_aes_eax(data, nonce, key) ==
    IF Len(key) # KEY_LEN
    THEN Raised("ValueError", MSG_KEY_LENGTH)
    ELSE LET cipher == AES_new(key, nonce)
         IN IF cipher.err # "none" THEN cipher
            ELSE encrypt_and_digest(cipher.val, data)

\* decrypt_aes_eax with cipher.decrypt(data) for cipher.decrypt_and_verify(data, tag)
decrypt_aes_eax_unverified(data, tag, nonce, key) ==
    IF Len(key) # KEY_LEN
    THEN Raised("ValueError", MSG_KEY_LENGTH)
    ELSE LET cipher == AES_new(key, nonce)
         IN IF cipher.err # "none" THEN cipher
            ELSE Returned(eax_crypt(cipher.val, data))

\* decrypt_aes_eax(data, tag, nonce, key)
decrypt_aes_eax(data, tag, nonce, key) ==
    IF Len(key) # KEY_LEN
    THEN Raised("ValueError", MSG_KEY_LENGTH)
    ELSE LET cipher == AES_new(key, nonce)
         IN IF cipher.err # "none" THEN cipher
            ELSE decrypt_and_verify(cipher.val, data, tag)

\* x.to_bytes(20, 'big') of a coordinate; None has no to_bytes
coord_to_bytes(x) ==
    IF x = None THEN Raised("AttributeError", MSG_NONE)
    ELSE Returned(to_bytes(x, COORD_LEN))

\* A nonce taken from the high ends of the coordinates: [:8] for [12:]
encrypt_nonce_high_bytes(Rx, Sx) ==
    SubSeq(to_bytes(Rx, COORD_LEN), 1, COORD_LEN - LOW_START)
        \o SubSeq(to_bytes(Sx, COORD_LEN), 1, COORD_LEN - LOW_START)

\* encrypt, steps 5 and 6: LRx + LSx
encrypt_nonce(Rx, Sx) ==
    Tail_from(to_bytes(Rx, COORD_LEN), LOW_START)
        \o Tail_from(to_bytes(Sx, COORD_LEN), LOW_START)

\* encrypt(message, random, eid): val is <<m' || tag, Sx>>; nonce and k are
\* the locals of the call, kept for observation
encrypt(m, rnd, eid_bytes) ==
    LET curve == SECP160r1
        s == signed_from_bytes_mod(rnd, curve.order)
        S == point_mul(s, generator(curve), curve)
        Rx == from_bytes(eid_bytes)
        Ry == rx_to_ry(Rx, curve)
    IN IF Ry.err # "none" THEN Ry
       ELSE LET R == Point(Rx, Ry.val)
                ikm == coord_to_bytes(point_x(point_mul(s, R, curve)))
            IN IF ikm.err # "none" THEN ikm
               ELSE LET k == HKDF(ikm.val)
                        Sxb == coord_to_bytes(point_x(S))
                    IN IF Sxb.err # "none" THEN Sxb
                       ELSE LET nonce == encrypt_nonce(Rx, point_x(S))
                                r == encrypt_aes_eax(m, nonce, k)
                            IN IF r.err # "none" THEN r
                               ELSE [err |-> "none", msg |-> "",
                                     val |-> <<r.val[1] \o r.val[2], Sxb.val>>,
                                     nonce |-> nonce, k |-> k]

\* FMDNCrypto.eid_generator.calculate_r(identity_key, time_counter) -> integer:
\* deterministic in the identity key and the counter, a scalar of the curve
calculate_r(key, counter) ==
    1 + ((9 * key[1] + 5 * counter) % (SECP160r1.order - 1))

\* FMDNCrypto.eid_generator.generate_eid(identity_key, time_counter) -> 20 bytes:
\* the x-coordinate of calculate_r(identity_key, time_counter) * G
generate_eid(key, counter) ==
    coord_to_bytes(point_x(point_mul(calculate_r(key, counter),
                                     generator(SECP160r1), SECP160r1)))

\* The two halves of the nonce in the other order: LSx || LRx
decrypt_nonce_swapped(Rx, Sx) ==
    Tail_from(to_bytes(Sx, COORD_LEN), LOW_START)
        \o Tail_from(to_bytes(Rx, COORD_LEN), LOW_START)

\* decrypt: nonce = LRx || LSx
decrypt_nonce(Rx, Sx) ==
    Tail_from(to_bytes(Rx, COORD_LEN), LOW_START)
        \o Tail_from(to_bytes(Sx, COORD_LEN), LOW_START)

\* decrypt: the split of encryptedAndTag into m' and the tag
split_payload(payload) ==
    <<Slice_to_minus(payload, TAG_LEN), Slice_from_minus(payload, TAG_LEN)>>

\* decrypt(identity_key, encryptedAndTag, Sx, beacon_time_counter); nonce is
\* the local of the call, kept for observation
decrypt(key, payload, Sx_bytes, counter) ==
    LET m_dash == split_payload(payload)[1]
        tag == split_payload(payload)[2]
        curve == SECP160r1
        r == calculate_r(key, counter)
        R == point_mul(r, generator(curve), curve)
        Sx == from_bytes(Sx_bytes)
        Sy == rx_to_ry(Sx, curve)
    IN IF Sy.err # "none" THEN Sy
       ELSE LET S == Point(Sx, Sy.val)
                ikm == coord_to_bytes(point_x(point_mul(r, S, curve)))
            IN IF ikm.err # "none" THEN ikm
               ELSE LET k == HKDF(ikm.val)
                        Rxb == coord_to_bytes(point_x(R))
                    IN IF Rxb.err # "none" THEN Rxb
                       ELSE LET nonce == decrypt_nonce(point_x(R), Sx)
                                res == decrypt_aes_eax(m_dash, tag, nonce, k)
                            IN [err |-> res.err, msg |-> res.msg, val |-> res.val,
                                nonce |-> nonce, k |-> k]

-----------------------------------------------------------------------------
(* Inputs *)

XCoords == 0..(SECP160r1.p - 1)

Fill(length, byte) == [i \in 1..length |-> byte]

ByteSamples == {0, 255}
Messages ==
    UNION {[1..l -> ByteSamples] : l \in 0..MaxMsgLen}

\* 20-byte seeds: 0, 1, the group order (reduces to 0), 300, -1 and -2^159
Seeds ==
    { to_bytes(0, COORD_LEN), to_bytes(1, COORD_LEN),
      to_bytes(SECP160r1.order, COORD_LEN), to_bytes(300, COORD_LEN),
      Fill(COORD_LEN, 255),
      <<128>> \o Fill(COORD_LEN - 1, 0) }

IdentityKeys == {Fill(KEY_LEN, 1), Fill(KEY_LEN, 2)}

AeadKeys == {Fill(l, 7) : l \in {0, 16, 31, 32, 33}}
AeadNonces == {<< >>, Fill(TAG_LEN, 3)}
AeadTags(data, nonce, key) ==
    {<< >>, Fill(TAG_LEN, 0)}
        \cup (IF AES_new(key, nonce).err = "none"
              THEN {eax_mac(AES_new(key, nonce).val, data)} ELSE {})

NoResult == [err |-> "not called", msg |-> "", val |-> None]
NoProbe == [x |-> 0, curve |-> SECP160r1, data |-> << >>, tag |-> << >>,
            nonce |-> << >>, key |-> << >>]

\* v with bit b flipped
FlipBit(v, b) ==
    IF (v \div Pow2(b)) % 2 = 1 THEN v - Pow2(b) ELSE v + Pow2(b)

-----------------------------------------------------------------------------
(* The crypto scenarios: a beacon report travelling from encrypt to decrypt, *)
(* and direct calls of each function.                                       *)

LoopIdle ==
    /\ DEVICE_NAMES_FILTER = << >>
    /\ lpc = "validate"
    /\ canonic_ids = << >>
    /\ idx = 0
    /\ log = << >>
    /\ attempted = {}
    /\ failed = {}
    /\ cycle_failed = FALSE
    /\ raised = "none"
    /\ cycles = 0
    /\ loop_running = FALSE
    /\ connected = FALSE
    /\ finalized = FALSE

CryptoIdle ==
    /\ pc = "idle"
    /\ identity_key = << >>
    /\ beacon_time_counter = 0
    /\ message = << >>
    /\ random = << >>
    /\ eid = << >>
    /\ enc = NoResult
    /\ encryptedAndTag = << >>
    /\ SxBytes = << >>
    /\ dec = NoResult
    /\ probe = NoProbe
    /\ out = NoResult

InitReport ==
    /\ pc = "report"
    /\ identity_key \in IdentityKeys
    /\ beacon_time_counter \in 0..MaxCounter
    /\ message \in Messages
    /\ random \in Seeds
    /\ eid = << >>
    /\ probe = NoProbe

InitCallEncrypt ==
    /\ pc = "call_encrypt"
    /\ identity_key = << >>
    /\ beacon_time_counter = 0
    /\ message \in Messages
    /\ random \in Seeds
    /\ eid \in {to_bytes(x, COORD_LEN) : x \in XCoords}
    /\ probe = NoProbe

InitCallRxToRy ==
    /\ pc = "call_rx_to_ry"
    /\ identity_key = << >>
    /\ beacon_time_counter = 0
    /\ message = << >>
    /\ random = << >>
    /\ eid = << >>
    /\ \E x \in XCoords, curve \in Curves :
          probe = [NoProbe EXCEPT !.x = x, !.curve = curve]

InitCallAead ==
    /\ pc \in {"call_encrypt_aes_eax", "call_decrypt_aes_eax"}
    /\ identity_key = << >>
    /\ beacon_time_counter = 0
    /\ message = << >>
    /\ random = << >>
    /\ eid = << >>
    /\ \E data \in Messages, nonce \in AeadNonces, key \in AeadKeys :
          \E tag \in AeadTags(data, nonce, key) :
             probe = [NoProbe EXCEPT !.data = data, !.tag = tag,
                                     !.nonce = nonce, !.key = key]

Init ==
    /\ InitReport \/ InitCallEncrypt \/ InitCallRxToRy \/ InitCallAead
    /\ enc = NoResult
    /\ encryptedAndTag = << >>
    /\ SxBytes = << >>
    /\ dec = NoResult
    /\ out = NoResult
    /\ LoopIdle

\* The beacon advertises eid = generate_eid(identity_key, beacon_time_counter)
Advertise ==
    /\ pc = "report"
    /\ LET e == generate_eid(identity_key, beacon_time_counter)
       IN IF e.err = "none"
          THEN eid' = e.val /\ pc' = "advertised"
          ELSE eid' = eid /\ pc' = "no_eid"
    /\ UNCHANGED <<identity_key, beacon_time_counter, message, random, enc,
                   encryptedAndTag, SxBytes, dec, probe, out>>
    /\ UNCHANGED loopVars

\* A finder encrypts the report for the advertised eid
Encrypt ==
    /\ pc = "advertised"
    /\ enc' = encrypt(message, random, eid)
    /\ IF enc'.err = "none"
       THEN /\ encryptedAndTag' = enc'.val[1]
            /\ SxBytes' = enc'.val[2]
            /\ pc' = "encrypted"
       ELSE /\ UNCHANGED <<encryptedAndTag, SxBytes>>
            /\ pc' = "encrypt_raised"
    /\ UNCHANGED <<identity_key, beacon_time_counter, message, random, eid,
                   dec, probe, out>>
    /\ UNCHANGED loopVars

\* One bit of the payload (ciphertext or tag) changes in transit
Tamper ==
    /\ pc = "encrypted"
    /\ \E i \in 1..Len(encryptedAndTag), b \in 0..7 :
          encryptedAndTag' =
              [encryptedAndTag EXCEPT ![i] = FlipBit(encryptedAndTag[i], b)]
    /\ pc' = "tampered"
    /\ UNCHANGED <<identity_key, beacon_time_counter, message, random, eid,
                   enc, SxBytes, dec, probe, out>>
    /\ UNCHANGED loopVars

\* The payload arrives cut to fewer bytes than a tag
Truncate ==
    /\ pc = "encrypted"
    /\ \E l \in 0..(TAG_LEN - 1) :
          encryptedAndTag' = SubSeq(encryptedAndTag, 1, l)
    /\ pc' = "truncated"
    /\ UNCHANGED <<identity_key, beacon_time_counter, message, random, eid,
                   enc, SxBytes, dec, probe, out>>
    /\ UNCHANGED loopVars

\* The owner decrypts what arrived
Decrypt ==
    /\ pc \in {"encrypted", "tampered", "truncated"}
    /\ dec' = decrypt(identity_key, encryptedAndTag, SxBytes, beacon_time_counter)
    /\ pc' = (IF pc = "encrypted" THEN "decrypted"
              ELSE IF pc = "tampered" THEN "tampered_decrypted"
              ELSE "truncated_decrypted")
    /\ UNCHANGED <<identity_key, beacon_time_counter, message, random, eid,
                   enc, encryptedAndTag, SxBytes, probe, out>>
    /\ UNCHANGED loopVars

CallEncrypt ==
    /\ pc = "call_encrypt"
    /\ out' = encrypt(message, random, eid)
    /\ pc' = "encrypt_returned"
    /\ UNCHANGED <<identity_key, beacon_time_counter, message, random, eid,
                   enc, encryptedAndTag, SxBytes, dec, probe>>
    /\ UNCHANGED loopVars

CallRxToRy ==
    /\ pc = "call_rx_to_ry"
    /\ out' = rx_to_ry(probe.x, probe.curve)
    /\ pc' = "rx_to_ry_returned"
    /\ UNCHANGED <<identity_key, beacon_time_counter, message, random, eid,
                   enc, encryptedAndTag, SxBytes, dec, probe>>
    /\ UNCHANGED loopVars

CallEncryptAesEax ==
    /\ pc = "call_encrypt_aes_eax"
    /\ out' = encrypt_aes_eax(probe.data, probe.nonce, probe.key)
    /\ pc' = "encrypt_aes_eax_returned"
    /\ UNCHANGED <<identity_key, beacon_time_counter, message, random, eid,
                   enc, encryptedAndTag, SxBytes, dec, probe>>
    /\ UNCHANGED loopVars

CallDecryptAesEax ==
    /\ pc = "call_decrypt_aes_eax"
    /\ out' = decrypt_aes_eax(probe.data, probe.tag, probe.nonce, probe.key)
    /\ pc' = "decrypt_aes_eax_returned"
    /\ UNCHANGED <<identity_key, beacon_time_counter, message, random, eid,
                   enc, encryptedAndTag, SxBytes, dec, probe>>
    /\ UNCHANGED loopVars

Next ==
    \/ Advertise
    \/ Encrypt
    \/ Tamper
    \/ Truncate
    \/ Decrypt
    \/ CallEncrypt
    \/ CallRxToRy
    \/ CallEncryptAesEax
    \/ CallDecryptAesEax

Spec == Init /\ [][Next]_vars

-----------------------------------------------------------------------------
(* Properties of the crypto functions *)

\* The point r*G the beacon computed and the point s*G the finder computed
ActualR == point_mul(calculate_r(identity_key, beacon_time_counter),
                     generator(SECP160r1), SECP160r1)
ActualS == point_mul(signed_from_bytes_mod(random, SECP160r1.order),
                     generator(SECP160r1), SECP160r1)

\* w = x^3 + a*x + b mod p of the rx_to_ry call, and whether it is a square
ProbeW == (probe.x * probe.x * probe.x + probe.curve.a * probe.x + probe.curve.b)
              % probe.curve.p
IsQuadraticResidue(w, p) == \E y \in 0..(p - 1) : (y * y) % p = w

\* C1 (round trip): when encrypt returned (payload, Sx) for the eid generated
\* from (identity_key, beacon_time_counter), decrypt of that payload and Sx
\* under the same key and counter returns exactly the message.
C1_RoundTrip ==
    pc = "decrypted" => (dec.err = "none" /\ dec.val = message)

\* Both sides reconstructed the negation of the peer's point (the peer's y was
\* odd), and a non-empty message came back.
C1_Witness ==
    /\ pc = "decrypted"
    /\ message # << >>
    /\ dec.val = message
    /\ ActualR.y % 2 = 1
    /\ ActualS.y % 2 = 1

\* C2 (tamper detection): after one bit of the ciphertext or of the tag was
\* flipped, decrypt raises the MAC failure and releases nothing; and whenever
\* decrypt returns a plaintext, the tag it was given is the tag of the
\* ciphertext under the derived key and nonce.
C2_TamperDetected ==
    /\ pc = "tampered_decrypted" =>
          (dec.err = "ValueError" /\ dec.msg = MSG_MAC /\ dec.val = None)
    /\ (pc \in {"decrypted", "tampered_decrypted", "truncated_decrypted"}
        /\ dec.err = "none") =>
          split_payload(encryptedAndTag)[2] =
              eax_mac([key |-> dec.k, nonce |-> dec.nonce],
                      split_payload(encryptedAndTag)[1])

\* A ciphertext bit (not a tag bit) was flipped and decrypt refused.
C2_Witness ==
    /\ pc = "tampered_decrypted"
    /\ Len(message) > 0
    /\ split_payload(encryptedAndTag)[2] = split_payload(enc.val[1])[2]
    /\ split_payload(encryptedAndTag)[1] # split_payload(enc.val[1])[1]
    /\ dec.msg = MSG_MAC

\* C3 (malformed payload is its own error), as claimed: a payload shorter than
\* the 16-byte tag makes decrypt fail with an error that is not the
\* authentication failure of a tag mismatch.
C3_MalformedDistinct ==
    pc = "truncated_decrypted" =>
        (dec.err # "none" /\ ~(dec.err = "ValueError" /\ dec.msg = MSG_MAC))

\* C4 (rejection): rx_to_ry raises the invalid-point error exactly when
\* w = x^3 + a*x + b mod p is not a quadratic residue, and otherwise returns a
\* y with y^2 mod p = w.
C4_Rejection ==
    pc = "rx_to_ry_returned" =>
        IF IsQuadraticResidue(ProbeW, probe.curve.p)
        THEN out.err = "none" /\ (out.val * out.val) % probe.curve.p = ProbeW
        ELSE out = Raised("ValueError", MSG_INVALID_EID)

\* An x off the curve was rejected.
C4_Witness ==
    /\ pc = "rx_to_ry_returned"
    /\ ~IsQuadraticResidue(ProbeW, probe.curve.p)
    /\ out.err = "ValueError"

\* C5 (parity): every y that rx_to_ry returns is even, lies in [0, p) and
\* satisfies y^2 mod p = w.
C5_Parity ==
    (pc = "rx_to_ry_returned" /\ out.err = "none") =>
        /\ out.val % 2 = 0
        /\ out.val >= 0 /\ out.val < probe.curve.p
        /\ (out.val * out.val) % probe.curve.p = ProbeW

\* The computed root was odd and p - y was returned.
C5_Witness ==
    /\ pc = "rx_to_ry_returned"
    /\ out.err = "none"
    /\ pow_mod(ProbeW, (probe.curve.p + 1) \div 4, probe.curve.p) % 2 = 1
    /\ out.val % 2 = 0

\* C6 (key sizing): encrypt_aes_eax and decrypt_aes_eax raise the key-length
\* error for every key that is not 32 bytes long, whatever data, nonce and
\* tag are, and nothing of the cipher (its own argument checks, the tag
\* check) is seen.
C6_KeySizing ==
    (pc \in {"encrypt_aes_eax_returned", "decrypt_aes_eax_returned"}
     /\ Len(probe.key) # KEY_LEN) =>
        out = Raised("ValueError", MSG_KEY_LENGTH)

\* A 16-byte key, which AES itself accepts, with a tag that would verify.
C6_Witness ==
    /\ pc = "decrypt_aes_eax_returned"
    /\ Len(probe.key) = 16
    /\ probe.nonce # << >>
    /\ probe.tag = eax_mac([key |-> probe.key, nonce |-> probe.nonce], probe.data)
    /\ out.msg = MSG_KEY_LENGTH

\* The low 8 bytes of a byte string
LowEight(b) == SubSeq(b, Len(b) - 7, Len(b))

\* C7 (nonce determinism): encrypt's nonce is the low 8 bytes of the eid (Rx)
\* followed by the low 8 bytes of the Sx it returns; it is the same for every
\* message under the same seed and eid; and decrypt computes the same nonce.
C7_NonceDeterminism ==
    /\ (pc \in {"encrypted", "decrypted"} /\ enc.err = "none") =>
          /\ enc.nonce = LowEight(eid) \o LowEight(enc.val[2])
          /\ Len(enc.nonce) = TAG_LEN
    /\ pc = "encrypted" =>
          \A m2 \in Messages : encrypt(m2, random, eid).nonce = enc.nonce
    /\ pc \in {"decrypted", "tampered_decrypted", "truncated_decrypted"} =>
          dec.nonce = enc.nonce

\* decrypt ran on what encrypt produced and used encrypt's nonce.
C7_Witness ==
    /\ pc = "decrypted"
    /\ message # << >>
    /\ dec.err = "none"
    /\ dec.nonce = enc.nonce
    /\ ActualR.x # ActualS.x

\* C8 (output layout), as claimed: for every message, every seed and every
\* eid on the curve, encrypt returns a payload of len(message) + 16 bytes and
\* an Sx of 20 bytes.
C8_OutputLayout ==
    (pc = "encrypt_returned"
     /\ rx_to_ry(from_bytes(eid), SECP160r1).err = "none") =>
        /\ out.err = "none"
        /\ Len(out.val[1]) = Len(message) + TAG_LEN
        /\ Len(out.val[2]) = COORD_LEN

-----------------------------------------------------------------------------
(* publish_mqtt.py: main *)

DeviceNames == {"tag", "phone"}

\* What get_canonic_ids returns: (device_name, canonic_id) pairs, the ids distinct
RetrievedLists ==
    UNION {{[i \in 1..l |-> <<names[i], i>>] : names \in [1..l -> DeviceNames]}
              : l \in 0..MaxDevices}

\* DEVICE_NAMES_FILTER.split(','), each entry stripped: unset, blank, one name,
\* two names around a blank entry
FilterSettings == {<< >>, <<"">>, <<"tag">>, <<"tag", "", "phone">>}

\* main: the name filter on canonic_ids
filter_devices(ids, setting) ==
    LET allowed_names == {setting[i] : i \in 1..Len(setting)} \ {""}
        allowed(d) == d[1] \in allowed_names
    IN IF Len(setting) > 0 /\ allowed_names # {}
       THEN SelectSeq(ids, allowed)
       ELSE ids

\* publish_device_config: the one publish it makes, to <base_topic>/config
publish_device_config(device) ==
    [topic |-> "config", device |-> device, retain |-> TRUE]

\* publish_device_state: the two publishes it makes, state then attributes
publish_device_state(device, location_data) ==
    << [topic |-> "state", device |-> device, retain |-> FALSE],
       [topic |-> "attributes", device |-> device, retain |-> FALSE] >>

\* Without the per-device try: the exception reaches the cycle's except clause
device_exception_ends_cycle(i, ids) ==
    [lpc |-> "sleep", idx |-> i, raised |-> "none"]

\* main, after the per-device except clause: the for loop goes on
after_device_exception(i, ids) ==
    IF i < Len(ids)
    THEN [lpc |-> "publish_config", idx |-> i + 1, raised |-> "none"]
    ELSE [lpc |-> "sleep", idx |-> i, raised |-> "none"]

\* main, after the cycle's except clause: on to the sleep
after_cycle_exception ==
    [lpc |-> "sleep", raised |-> "none"]

\* Positions inside the outer try of main
TryPositions == {"connect", "loop_start", "retrieve", "publish_config",
                 "wait_config", "publish_state", "sleep"}

InitLoop ==
    /\ CryptoIdle
    /\ DEVICE_NAMES_FILTER \in FilterSettings
    /\ lpc = "validate"
    /\ canonic_ids = << >>
    /\ idx = 0
    /\ log = << >>
    /\ attempted = {}
    /\ failed = {}
    /\ cycle_failed = FALSE
    /\ raised = "none"
    /\ cycles = 0
    /\ loop_running = FALSE
    /\ connected = FALSE
    /\ finalized = FALSE

\* validate_config(); exit(1) when it fails
ValidateConfig ==
    /\ lpc = "validate"
    /\ \E ok \in BOOLEAN : lpc' = IF ok THEN "connect" ELSE "exited"
    /\ UNCHANGED <<DEVICE_NAMES_FILTER, canonic_ids, idx, log, attempted, failed,
                   cycle_failed, raised, cycles, loop_running, connected, finalized>>
    /\ UNCHANGED cryptoVars

\* client.connect(MQTT_BROKER, MQTT_PORT): connects, or raises outside the cycle
Connect ==
    /\ lpc = "connect"
    /\ \/ connected' = TRUE /\ lpc' = "loop_start" /\ raised' = raised
       \/ connected' = connected /\ lpc' = "finally" /\ raised' = "ConnectError"
    /\ UNCHANGED <<DEVICE_NAMES_FILTER, canonic_ids, idx, log, attempted, failed,
                   cycle_failed, cycles, loop_running, finalized>>
    /\ UNCHANGED cryptoVars

\* client.loop_start()
LoopStart ==
    /\ lpc = "loop_start"
    /\ loop_running' = TRUE
    /\ lpc' = "retrieve"
    /\ UNCHANGED <<DEVICE_NAMES_FILTER, canonic_ids, idx, log, attempted, failed,
                   cycle_failed, raised, cycles, connected, finalized>>
    /\ UNCHANGED cryptoVars

\* A new cycle: request_device_list, parse_device_list_protobuf,
\* get_canonic_ids and the filter; any of them may raise
Retrieve ==
    /\ lpc = "retrieve"
    /\ cycles < MaxCycles
    /\ cycles' = cycles + 1
    /\ log' = << >>
    /\ attempted' = {}
    /\ failed' = {}
    /\ \/ \E ids \in RetrievedLists :
             /\ canonic_ids' = filter_devices(ids, DEVICE_NAMES_FILTER)
             /\ cycle_failed' = FALSE
             /\ idx' = 1
             /\ lpc' = IF Len(canonic_ids') = 0 THEN "sleep" ELSE "publish_config"
             /\ raised' = raised
       \/ /\ canonic_ids' = << >>
          /\ cycle_failed' = TRUE
          /\ idx' = 0
          /\ lpc' = after_cycle_exception.lpc
          /\ raised' = after_cycle_exception.raised
    /\ UNCHANGED <<DEVICE_NAMES_FILTER, loop_running, connected, finalized>>
    /\ UNCHANGED cryptoVars

\* The per-device except clause, entered with exception exc
DeviceExcept(exc) ==
    /\ failed' = failed \cup {<<idx, exc>>}
    /\ lpc' = after_device_exception(idx, canonic_ids).lpc
    /\ idx' = after_device_exception(idx, canonic_ids).idx
    /\ raised' = after_device_exception(idx, canonic_ids).raised

\* msg_info = publish_device_config(client, device_name, canonic_id)
PublishConfig ==
    /\ lpc = "publish_config"
    /\ attempted' = attempted \cup {idx}
    /\ \/ /\ log' = Append(log, publish_device_config(canonic_ids[idx]))
          /\ lpc' = "wait_config"
          /\ UNCHANGED <<idx, failed, raised>>
       \/ /\ DeviceExcept("MqttError")
          /\ log' = log
    /\ UNCHANGED <<DEVICE_NAMES_FILTER, canonic_ids, cycle_failed, cycles,
                   loop_running, connected, finalized>>
    /\ UNCHANGED cryptoVars

\* msg_info.wait_for_publish()
WaitConfig ==
    /\ lpc = "wait_config"
    /\ \/ /\ lpc' = "publish_state"
          /\ UNCHANGED <<idx, failed, raised>>
       \/ DeviceExcept("MqttError")
    /\ UNCHANGED <<DEVICE_NAMES_FILTER, canonic_ids, log, attempted, cycle_failed,
                   cycles, loop_running, connected, finalized>>
    /\ UNCHANGED cryptoVars

\* publish_device_state(client, device_name, canonic_id, location_data): the
\* name location_data is bound nowhere, so evaluating the arguments raises
\* NameError and publish_device_state is not entered
PublishState ==
    /\ lpc = "publish_state"
    /\ DeviceExcept("NameError")
    /\ UNCHANGED <<DEVICE_NAMES_FILTER, canonic_ids, log, attempted, cycle_failed,
                   cycles, loop_running, connected, finalized>>
    /\ UNCHANGED cryptoVars

\* time.sleep(REFRESH_INTERVAL), then the next iteration of while True
Sleep ==
    /\ lpc = "sleep"
    /\ lpc' = "retrieve"
    /\ UNCHANGED <<DEVICE_NAMES_FILTER, canonic_ids, idx, log, attempted, failed,
                   cycle_failed, raised, cycles, loop_running, connected, finalized>>
    /\ UNCHANGED cryptoVars

\* KeyboardInterrupt anywhere inside the outer try: no except Exception clause
\* catches it
Interrupt ==
    /\ lpc \in TryPositions
    /\ raised' = "KeyboardInterrupt"
    /\ lpc' = "finally"
    /\ UNCHANGED <<DEVICE_NAMES_FILTER, canonic_ids, idx, log, attempted, failed,
                   cycle_failed, cycles, loop_running, connected, finalized>>
    /\ UNCHANGED cryptoVars

\* finally: client.loop_stop(); client.disconnect()
Finally ==
    /\ lpc = "finally"
    /\ loop_running' = FALSE
    /\ connected' = FALSE
    /\ finalized' = TRUE
    /\ lpc' = "done"
    /\ UNCHANGED <<DEVICE_NAMES_FILTER, canonic_ids, idx, log, attempted, failed,
                   cycle_failed, raised, cycles>>
    /\ UNCHANGED cryptoVars

NextLoop ==
    \/ ValidateConfig
    \/ Connect
    \/ LoopStart
    \/ Retrieve
    \/ PublishConfig
    \/ WaitConfig
    \/ PublishState
    \/ Sleep
    \/ Interrupt
    \/ Finally

SpecLoop == InitLoop /\ [][NextLoop]_vars

-----------------------------------------------------------------------------
(* Properties of the publishing loop *)

\* The topics published for device i of the list in the current cycle, in order
DeviceTopics(i) ==
    LET mine(e) == e.device = canonic_ids[i]
        l == SelectSeq(log, mine)
    IN [k \in 1..Len(l) |-> l[k].topic]

\* The topics the loop is to publish for one device, in order
ExpectedTopics(device) ==
    LET l == <<publish_device_config(device)>> \o publish_device_state(device, None)
    IN [k \in 1..Len(l) |-> l[k].topic]

MqttFailed(i) == <<i, "MqttError">> \in failed

\* C9 (publishing loop), as claimed: when a cycle that retrieved the device
\* list reaches its end, every device of the filtered list whose publishes the
\* MQTT client accepted has had its discovery configuration published and,
\* after it, its state and its attributes.
C9_ConfigThenState ==
    (lpc = "sleep" /\ ~cycle_failed) =>
        \A i \in 1..Len(canonic_ids) :
            ~MqttFailed(i) => DeviceTopics(i) = ExpectedTopics(canonic_ids[i])

\* C10 (failure isolation), the states: a cycle that retrieved the list has
\* started every device of it by the time it sleeps, whichever of them raised;
\* the loop is left only with a KeyboardInterrupt or the error raised outside
\* the cycle; and once main is done the client loop is stopped and the client
\* disconnected.
C10_States ==
    /\ (lpc = "sleep" /\ ~cycle_failed) => attempted = 1..Len(canonic_ids)
    /\ cycle_failed => (lpc \in {"sleep", "retrieve"} \/ raised = "KeyboardInterrupt")
    /\ lpc \in {"finally", "done"} => raised \in {"KeyboardInterrupt", "ConnectError"}
    /\ lpc = "done" => (~loop_running /\ ~connected /\ finalized)

\* C10, the steps: an exception caught for a device that is not the last is
\* followed by the next device; an exception in retrieving the list is
\* followed by the sleep; and the sleep is followed by the next cycle, unless
\* the user interrupts.
C10_Steps ==
    /\ (failed' # failed /\ failed \subseteq failed' /\ idx < Len(canonic_ids)) =>
          (lpc' = "publish_config" /\ idx' = idx + 1)
    /\ (cycles' # cycles /\ cycle_failed') => lpc' = "sleep"
    /\ (lpc = "sleep" /\ lpc' # "sleep") =>
          (lpc' = "retrieve" \/ raised' = "KeyboardInterrupt")

\* C10 (failure isolation): C10_States in every state and C10_Steps at every
\* step.
C10_FailureIsolation == []C10_States /\ [][C10_Steps]_vars

\* In a second cycle, after the first device raised, the second is processed.
C10_Witness ==
    /\ cycles = 2
    /\ lpc = "wait_config"
    /\ idx = 2
    /\ 1 \in attempted
    /\ MqttFailed(1)

=============================================================================
